---- MODULE Spec2Model ----
(***************************************************************************)
(* tools/ascii-art-generator/main.py                                       *)
(*                                                                         *)
(*   5  text = sys.argv[1]                                                 *)
(*   6  ascii_art = pyfiglet.figlet_format(text)                           *)
(*   8  print(json.dumps({"ascii_art": ascii_art}))                        *)
(*                                                                         *)
(* A process is one invocation of the script.  Strings are sequences of    *)
(* Unicode code points.  pyfiglet is an external library: figlet_format is *)
(* an unknown function of its argument that either returns a string or     *)
(* raises; it is drawn in Init and never changes.                          *)
(***************************************************************************)
EXTENDS Integers, Sequences, FiniteSets, TLC

VARIABLES procs, argv, figlet, pc, text, ascii_art, stdout, exit, calls, trace

vars == <<procs, argv, figlet, pc, text, ascii_art, stdout, exit, calls, trace>>

----------------------------------------------------------------------------
(* Bounds of the model *)

MaxTextLen == 1
MaxArgs == 2
MaxArtLen == 2
MaxParArtLen == 1

(* Code points the model draws command-line arguments from: '-' and 'H'. *)
TextChars == {45, 72}

(* Code points the renderer's result is drawn from: LF, CR, '"', '\', 'n',
   e-acute (U+00E9) and U+1F600 (outside the Basic Multilingual Plane). *)
ArtChars == {10, 13, 34, 92, 110, 233, 128512}

(* The renderer's alphabet when two invocations run side by side. *)
ParArtChars == {10, 110}

SeqsUpTo(S, n) == UNION {[1..k -> S] : k \in 0..n}

Texts == SeqsUpTo(TextChars, MaxTextLen)

(* Every argument after the first is the flag-like text "-". *)
ExtraText == <<45>>

ArgVectors ==
  {<<>>} \cup {<<t>> \o [i \in 1..k |-> ExtraText] : t \in Texts, k \in 0..(MaxArgs - 1)}

----------------------------------------------------------------------------
(* Python's process exit statuses *)

NoExit == -1
ExitOk == 0
ExitUncaught == 1

(* A local name that has not been bound yet. *)
Unbound == <<-1>>

----------------------------------------------------------------------------
(* pyfiglet.figlet_format(text): returns a str or raises *)

Returned(s) == [ok |-> TRUE, art |-> s]
Raised == [ok |-> FALSE, art |-> <<>>]

Outcomes(chars, n) == {Raised} \cup {Returned(s) : s \in SeqsUpTo(chars, n)}

FirstArgs(args) == {args[p][1] : p \in {q \in DOMAIN args : Len(args[q]) >= 1}}

----------------------------------------------------------------------------
(* json.dumps with its defaults: ensure_ascii=True, separators (', ', ': ') *)

HexDigit(d) == IF d < 10 THEN 48 + d ELSE 87 + d

Hex4(c) ==
  <<HexDigit((c \div 4096) % 16), HexDigit((c \div 256) % 16),
    HexDigit((c \div 16) % 16), HexDigit(c % 16)>>

(* json.dumps, had it left a line feed as it is. *)
EscapeCharKeepsLineFeed(c) ==
  CASE c = 92 -> <<92, 92>>
    [] c = 34 -> <<92, 34>>
    [] c = 8 -> <<92, 98>>
    [] c = 12 -> <<92, 102>>
    [] c = 10 -> <<10>>
    [] c = 13 -> <<92, 114>>
    [] c = 9 -> <<92, 116>>
    [] c >= 32 /\ c <= 126 /\ c # 92 /\ c # 34 -> <<c>>
    [] c > 65535 ->
         LET v == c - 65536
         IN  <<92, 117>> \o Hex4(55296 + ((v \div 1024) % 1024))
               \o <<92, 117>> \o Hex4(56320 + (v % 1024))
    [] OTHER -> <<92, 117>> \o Hex4(c)

(* json.dumps, had it left a backslash as it is. *)
EscapeCharKeepsBackslash(c) ==
  CASE c = 92 -> <<92>>
    [] c = 34 -> <<92, 34>>
    [] c = 8 -> <<92, 98>>
    [] c = 12 -> <<92, 102>>
    [] c = 10 -> <<92, 110>>
    [] c = 13 -> <<92, 114>>
    [] c = 9 -> <<92, 116>>
    [] c >= 32 /\ c <= 126 /\ c # 92 /\ c # 34 -> <<c>>
    [] c > 65535 ->
         LET v == c - 65536
         IN  <<92, 117>> \o Hex4(55296 + ((v \div 1024) % 1024))
               \o <<92, 117>> \o Hex4(56320 + (v % 1024))
    [] OTHER -> <<92, 117>> \o Hex4(c)

EscapeChar(c) ==
  CASE c = 92 -> <<92, 92>>
    [] c = 34 -> <<92, 34>>
    [] c = 8 -> <<92, 98>>
    [] c = 12 -> <<92, 102>>
    [] c = 10 -> <<92, 110>>
    [] c = 13 -> <<92, 114>>
    [] c = 9 -> <<92, 116>>
    [] c >= 32 /\ c <= 126 /\ c # 92 /\ c # 34 -> <<c>>
    [] c > 65535 ->
         LET v == c - 65536
         IN  <<92, 117>> \o Hex4(55296 + ((v \div 1024) % 1024))
               \o <<92, 117>> \o Hex4(56320 + (v % 1024))
    [] OTHER -> <<92, 117>> \o Hex4(c)

RECURSIVE EscapeAll(_)
EscapeAll(s) == IF s = <<>> THEN <<>> ELSE EscapeChar(Head(s)) \o EscapeAll(Tail(s))

EncodeString(s) == <<34>> \o EscapeAll(s) \o <<34>>

(* "ascii_art" *)
KeyName == <<97, 115, 99, 105, 105, 95, 97, 114, 116>>

(* json.dumps({"ascii_art": art}) *)
JsonDumps(art) ==
  <<123>> \o EncodeString(KeyName) \o <<58, 32>> \o EncodeString(art) \o <<125>>

----------------------------------------------------------------------------
(* A JSON reader for documents that hold one object with string members,
   following json.loads: insignificant whitespace is skipped, a raw control
   character inside a string is an error, the escapes are the two-character
   ones and \uXXXX, and a surrogate pair is combined into one code point. *)

ParseError == [ok |-> FALSE, members |-> <<>>]

IsSpace(c) == c \in {32, 9, 10, 13}

RECURSIVE SkipSpace(_, _)
SkipSpace(doc, i) ==
  IF i <= Len(doc) /\ IsSpace(doc[i]) THEN SkipSpace(doc, i + 1) ELSE i

HexValue(c) ==
  IF c >= 48 /\ c <= 57 THEN c - 48
  ELSE IF c >= 97 /\ c <= 102 THEN c - 87
  ELSE IF c >= 65 /\ c <= 70 THEN c - 55
  ELSE -1

(* The value of the four hexadecimal digits at doc[i..i+3], or -1. *)
Hex4At(doc, i) ==
  IF i + 3 > Len(doc) THEN -1
  ELSE IF \E k \in 0..3 : HexValue(doc[i + k]) = -1 THEN -1
  ELSE 4096 * HexValue(doc[i]) + 256 * HexValue(doc[i + 1])
         + 16 * HexValue(doc[i + 2]) + HexValue(doc[i + 3])

ShortEscape(e) ==
  CASE e = 34 -> 34
    [] e = 92 -> 92
    [] e = 47 -> 47
    [] e = 98 -> 8
    [] e = 102 -> 12
    [] e = 110 -> 10
    [] e = 114 -> 13
    [] e = 116 -> 9
    [] OTHER -> -1

NoString == [ok |-> FALSE, value |-> <<>>, next |-> 0]

(* doc[i] is the first character after the opening quote. *)
RECURSIVE ScanString(_, _, _)
ScanString(doc, i, acc) ==
  IF i > Len(doc) THEN NoString
  ELSE IF doc[i] = 34 THEN [ok |-> TRUE, value |-> acc, next |-> i + 1]
  ELSE IF doc[i] < 32 THEN NoString
  ELSE IF doc[i] # 92 THEN ScanString(doc, i + 1, Append(acc, doc[i]))
  ELSE IF i + 1 > Len(doc) THEN NoString
  ELSE IF doc[i + 1] = 117 THEN
    LET u == Hex4At(doc, i + 2)
        lo == IF i + 7 <= Len(doc) /\ doc[i + 6] = 92 /\ doc[i + 7] = 117
                THEN Hex4At(doc, i + 8) ELSE -1
    IN  IF u = -1 THEN NoString
        ELSE IF u >= 55296 /\ u <= 56319 /\ lo >= 56320 /\ lo <= 57343
          THEN ScanString(doc, i + 12,
                          Append(acc, 65536 + (u - 55296) * 1024 + (lo - 56320)))
        ELSE ScanString(doc, i + 6, Append(acc, u))
  ELSE IF ShortEscape(doc[i + 1]) = -1 THEN NoString
  ELSE ScanString(doc, i + 2, Append(acc, ShortEscape(doc[i + 1])))

(* The members of the object a document holds, as <<key, value>> pairs. *)
RECURSIVE ScanMembers(_, _, _)
ScanMembers(doc, i, acc) ==
  LET k == SkipSpace(doc, i)
  IN  IF k > Len(doc) \/ doc[k] # 34 THEN ParseError
      ELSE LET key == ScanString(doc, k + 1, <<>>)
               c == SkipSpace(doc, key.next)
           IN  IF ~key.ok \/ c > Len(doc) \/ doc[c] # 58 THEN ParseError
               ELSE LET v == SkipSpace(doc, c + 1)
                    IN  IF v > Len(doc) \/ doc[v] # 34 THEN ParseError
                        ELSE LET val == ScanString(doc, v + 1, <<>>)
                                 e == SkipSpace(doc, val.next)
                                 sofar == Append(acc, <<key.value, val.value>>)
                             IN  IF ~val.ok \/ e > Len(doc) THEN ParseError
                                 ELSE IF doc[e] = 44 THEN ScanMembers(doc, e + 1, sofar)
                                 ELSE IF doc[e] = 125 /\ SkipSpace(doc, e + 1) > Len(doc)
                                   THEN [ok |-> TRUE, members |-> sofar]
                                 ELSE ParseError

JsonLoads(doc) ==
  LET b == SkipSpace(doc, 1)
  IN  IF b > Len(doc) \/ doc[b] # 123 THEN ParseError
      ELSE IF SkipSpace(doc, b + 1) <= Len(doc) /\ doc[SkipSpace(doc, b + 1)] = 125
                /\ SkipSpace(doc, SkipSpace(doc, b + 1) + 1) > Len(doc)
        THEN [ok |-> TRUE, members |-> <<>>]
      ELSE ScanMembers(doc, b + 1, <<>>)

(* The document is one JSON object with the single key ascii_art. *)
HoldsArtObject(doc) ==
  /\ JsonLoads(doc).ok
  /\ Len(JsonLoads(doc).members) = 1
  /\ JsonLoads(doc).members[1][1] = KeyName

ArtOf(doc) == JsonLoads(doc).members[1][2]


----------------------------------------------------------------------------
(* The script, one action per statement *)

Init ==
  /\ procs = {1}
  /\ argv \in [procs -> ArgVectors]
  /\ figlet \in [FirstArgs(argv) -> Outcomes(ArtChars, MaxArtLen)]
  /\ pc = [p \in procs |-> "read"]
  /\ text = [p \in procs |-> Unbound]
  /\ ascii_art = [p \in procs |-> Unbound]
  /\ stdout = [p \in procs |-> <<>>]
  /\ exit = [p \in procs |-> NoExit]
  /\ calls = [p \in procs |-> <<>>]
  /\ trace = [p \in procs |-> <<>>]

(* Two invocations started together. *)
ParInit ==
  /\ procs = {1, 2}
  /\ argv \in [procs -> ArgVectors]
  /\ figlet \in [FirstArgs(argv) -> Outcomes(ParArtChars, MaxParArtLen)]
  /\ pc = [p \in procs |-> "read"]
  /\ text = [p \in procs |-> Unbound]
  /\ ascii_art = [p \in procs |-> Unbound]
  /\ stdout = [p \in procs |-> <<>>]
  /\ exit = [p \in procs |-> NoExit]
  /\ calls = [p \in procs |-> <<>>]
  /\ trace = [p \in procs |-> <<>>]

(* Line 5, had it answered a missing argument with an empty document and
   status 0. *)
ReadFallback(p) ==
  /\ pc[p] = "read"
  /\ trace' = [trace EXCEPT ![p] = Append(@, "read")]
  /\ IF Len(argv[p]) >= 1
       THEN /\ text' = [text EXCEPT ![p] = argv[p][1]]
            /\ pc' = [pc EXCEPT ![p] = "render"]
            /\ UNCHANGED <<exit, stdout>>
       ELSE /\ text' = text
            /\ stdout' = [stdout EXCEPT ![p] = JsonDumps(<<>>) \o <<10>>]
            /\ pc' = [pc EXCEPT ![p] = "done"]
            /\ exit' = [exit EXCEPT ![p] = ExitOk]
  /\ UNCHANGED <<procs, argv, figlet, ascii_art, calls>>

(* Line 5, had it insisted on exactly one argument (usage error, status 2). *)
ReadStrict(p) ==
  /\ pc[p] = "read"
  /\ trace' = [trace EXCEPT ![p] = Append(@, "read")]
  /\ IF Len(argv[p]) = 1
       THEN /\ text' = [text EXCEPT ![p] = argv[p][1]]
            /\ pc' = [pc EXCEPT ![p] = "render"]
            /\ exit' = exit
       ELSE /\ text' = text
            /\ pc' = [pc EXCEPT ![p] = "done"]
            /\ exit' = [exit EXCEPT ![p] = IF Len(argv[p]) = 0 THEN ExitUncaught ELSE 2]
  /\ UNCHANGED <<procs, argv, figlet, ascii_art, stdout, calls>>


(* line 5: text = sys.argv[1]; IndexError when no argument was given, which
   nothing catches: traceback on standard error, exit status 1. *)
Read(p) ==
  /\ pc[p] = "read"
  /\ trace' = [trace EXCEPT ![p] = Append(@, "read")]
  /\ IF Len(argv[p]) >= 1
       THEN /\ text' = [text EXCEPT ![p] = argv[p][1]]
            /\ pc' = [pc EXCEPT ![p] = "render"]
            /\ exit' = exit
       ELSE /\ text' = text
            /\ pc' = [pc EXCEPT ![p] = "done"]
            /\ exit' = [exit EXCEPT ![p] = ExitUncaught]
  /\ UNCHANGED <<procs, argv, figlet, ascii_art, stdout, calls>>

RECURSIVE Rstrip(_)
Rstrip(s) ==
  IF s # <<>> /\ s[Len(s)] \in {9, 10, 13, 32} THEN Rstrip(SubSeq(s, 1, Len(s) - 1)) ELSE s

(* Line 6, had it stripped the trailing whitespace of the result. *)
RenderStripped(p) ==
  /\ pc[p] = "render"
  /\ trace' = [trace EXCEPT ![p] = Append(@, "render")]
  /\ calls' = [calls EXCEPT ![p] = Append(@, text[p])]
  /\ IF figlet[text[p]].ok
       THEN /\ ascii_art' = [ascii_art EXCEPT ![p] = Rstrip(figlet[text[p]].art)]
            /\ pc' = [pc EXCEPT ![p] = "print"]
            /\ exit' = exit
       ELSE /\ ascii_art' = ascii_art
            /\ pc' = [pc EXCEPT ![p] = "done"]
            /\ exit' = [exit EXCEPT ![p] = ExitUncaught]
  /\ UNCHANGED <<procs, argv, figlet, text, stdout>>

(* Line 6, had it caught the library's exception and gone on with an empty
   art. *)
RenderFallback(p) ==
  /\ pc[p] = "render"
  /\ trace' = [trace EXCEPT ![p] = Append(@, "render")]
  /\ calls' = [calls EXCEPT ![p] = Append(@, text[p])]
  /\ ascii_art' = [ascii_art EXCEPT ![p] = IF figlet[text[p]].ok THEN figlet[text[p]].art ELSE <<>>]
  /\ pc' = [pc EXCEPT ![p] = "print"]
  /\ UNCHANGED <<procs, argv, figlet, text, stdout, exit>>

(* Line 6, had it called the library a second time after a first failure. *)
RenderRetry(p) ==
  /\ pc[p] = "render"
  /\ trace' = [trace EXCEPT ![p] = Append(@, "render")]
  /\ calls' = [calls EXCEPT ![p] = Append(@, text[p])]
  /\ IF figlet[text[p]].ok
       THEN /\ ascii_art' = [ascii_art EXCEPT ![p] = figlet[text[p]].art]
            /\ pc' = [pc EXCEPT ![p] = "print"]
            /\ exit' = exit
       ELSE /\ ascii_art' = ascii_art
            /\ pc' = [pc EXCEPT ![p] = IF calls[p] = <<>> THEN "render" ELSE "done"]
            /\ exit' = [exit EXCEPT ![p] = IF calls[p] = <<>> THEN NoExit ELSE ExitUncaught]
  /\ UNCHANGED <<procs, argv, figlet, text, stdout>>

(* Line 6, had the result been kept in a place all invocations share. *)
RenderShared(p) ==
  /\ pc[p] = "render"
  /\ trace' = [trace EXCEPT ![p] = Append(@, "render")]
  /\ calls' = [calls EXCEPT ![p] = Append(@, text[p])]
  /\ IF figlet[text[p]].ok
       THEN /\ ascii_art' = [q \in procs |-> figlet[text[p]].art]
            /\ pc' = [pc EXCEPT ![p] = "print"]
            /\ exit' = exit
       ELSE /\ ascii_art' = ascii_art
            /\ pc' = [pc EXCEPT ![p] = "done"]
            /\ exit' = [exit EXCEPT ![p] = ExitUncaught]
  /\ UNCHANGED <<procs, argv, figlet, text, stdout>>


(* line 6: ascii_art = pyfiglet.figlet_format(text); an exception of the
   library is not caught either. *)
Render(p) ==
  /\ pc[p] = "render"
  /\ trace' = [trace EXCEPT ![p] = Append(@, "render")]
  /\ calls' = [calls EXCEPT ![p] = Append(@, text[p])]
  /\ IF figlet[text[p]].ok
       THEN /\ ascii_art' = [ascii_art EXCEPT ![p] = figlet[text[p]].art]
            /\ pc' = [pc EXCEPT ![p] = "print"]
            /\ exit' = exit
       ELSE /\ ascii_art' = ascii_art
            /\ pc' = [pc EXCEPT ![p] = "done"]
            /\ exit' = [exit EXCEPT ![p] = ExitUncaught]
  /\ UNCHANGED <<procs, argv, figlet, text, stdout>>

(* Line 8, had it printed the art itself. *)
PrintRaw(p) ==
  /\ pc[p] = "print"
  /\ trace' = [trace EXCEPT ![p] = Append(@, "print")]
  /\ stdout' = [stdout EXCEPT ![p] = @ \o ascii_art[p] \o <<10>>]
  /\ pc' = [pc EXCEPT ![p] = "exit"]
  /\ UNCHANGED <<procs, argv, figlet, text, ascii_art, exit, calls>>


(* line 8: print(json.dumps({"ascii_art": ascii_art})); print appends "\n". *)
PrintJson(p) ==
  /\ pc[p] = "print"
  /\ trace' = [trace EXCEPT ![p] = Append(@, "print")]
  /\ stdout' = [stdout EXCEPT ![p] = @ \o JsonDumps(ascii_art[p]) \o <<10>>]
  /\ pc' = [pc EXCEPT ![p] = "exit"]
  /\ UNCHANGED <<procs, argv, figlet, text, ascii_art, exit, calls>>

(* end of the module: the interpreter exits with status 0. *)
Exit(p) ==
  /\ pc[p] = "exit"
  /\ trace' = [trace EXCEPT ![p] = Append(@, "exit")]
  /\ exit' = [exit EXCEPT ![p] = ExitOk]
  /\ pc' = [pc EXCEPT ![p] = "done"]
  /\ UNCHANGED <<procs, argv, figlet, text, ascii_art, stdout, calls>>

Next ==
  \/ \E p \in procs : Read(p)
  \/ \E p \in procs : Render(p)
  \/ \E p \in procs : PrintJson(p)
  \/ \E p \in procs : Exit(p)

Spec == Init /\ [][Next]_vars

(* The interpreter runs a started process to its end. *)
LiveSpec == Init /\ [][Next]_vars /\ WF_vars(Next)

ParSpec == ParInit /\ [][Next]_vars

----------------------------------------------------------------------------
(* Vocabulary of the properties *)

Done(p) == pc[p] = "done"

Failed(p) == Done(p) /\ exit[p] # NoExit /\ exit[p] # ExitOk

(* The statements in program order. *)
Program == <<"read", "render", "print", "exit">>

IsPrefix(s, t) == Len(s) <= Len(t) /\ \A i \in 1..Len(s) : s[i] = t[i]

(* What str.splitlines treats as the end of a line. *)
IsLineTerminator(c) == c \in {10, 11, 12, 13, 28, 29, 30, 133, 8232, 8233}

LineTerminators(s) == Cardinality({i \in 1..Len(s) : IsLineTerminator(s[i])})

----------------------------------------------------------------------------
(* C1: an invocation with one argument s on which the renderer returns r
   writes exactly json.dumps({"ascii_art": r}) and a newline to standard
   output, r being the renderer's result for s, and then exits with 0: the
   renderer is called with s itself, nothing else is ever on standard output,
   status 0 is set only after the write, and the finished run has both. *)
C1_SuccessOutput ==
  \A p \in procs :
    (Len(argv[p]) = 1 /\ figlet[argv[p][1]].ok) =>
      LET r == figlet[argv[p][1]].art
          doc == JsonDumps(r) \o <<10>>
      IN  /\ calls[p] \in {<<>>, <<argv[p][1]>>}
          /\ stdout[p] \in {<<>>, doc}
          /\ exit[p] \in {NoExit, ExitOk}
          /\ exit[p] = ExitOk => stdout[p] = doc
          /\ Done(p) => stdout[p] = doc /\ exit[p] = ExitOk

(* The empty string was given, the renderer returned two characters, and
   the run has finished. *)
C1_Witness ==
  \E p \in procs :
    /\ argv[p] = << <<>> >>
    /\ Done(p)
    /\ exit[p] = ExitOk
    /\ Len(ascii_art[p]) = 2
    /\ stdout[p] # <<>>

(* C2: with zero arguments the run ends at its first statement with a
   non-zero status, standard output stays empty and the renderer is never
   called. *)
C2_MissingArgument ==
  \A p \in procs :
    Len(argv[p]) = 0 =>
      /\ pc[p] \in {"read", "done"}
      /\ stdout[p] = <<>>
      /\ calls[p] = <<>>
      /\ exit[p] # ExitOk
      /\ Done(p) => Failed(p)

C2_Witness == \E p \in procs : Len(argv[p]) = 0 /\ Failed(p) /\ trace[p] = <<"read">>

(* C3: when the renderer fails on the input the run ends with a non-zero
   status and standard output is empty; in any run, whatever is on standard
   output was written after the render call returned a string. *)
C3_RenderingFault ==
  \A p \in procs :
    /\ (Len(argv[p]) >= 1 /\ ~figlet[argv[p][1]].ok) =>
         /\ stdout[p] = <<>>
         /\ exit[p] # ExitOk
         /\ Done(p) => Failed(p)
    /\ stdout[p] # <<>> =>
         /\ Len(calls[p]) = 1
         /\ figlet[calls[p][1]].ok
         /\ ascii_art[p] = figlet[calls[p][1]].art

C3_Witness ==
  \E p \in procs :
    /\ Len(argv[p]) >= 1
    /\ ~figlet[argv[p][1]].ok
    /\ calls[p] = <<argv[p][1]>>
    /\ Failed(p)

(* C4: in every state standard output is empty or holds one complete JSON
   object with the single key ascii_art and a string value; a process has an
   exit status exactly when it has ended, and that status is 0 if and only
   if standard output holds the object. *)
C4_OutputShape ==
  \A p \in procs :
    /\ stdout[p] = <<>> \/ HoldsArtObject(stdout[p])
    /\ Done(p) <=> exit[p] # NoExit
    /\ exit[p] = ExitOk => HoldsArtObject(stdout[p])
    /\ Done(p) => (exit[p] = ExitOk <=> HoldsArtObject(stdout[p]))

(* A finished run whose art holds a quote and a line feed. *)
C4_Witness ==
  \E p \in procs :
    /\ Done(p)
    /\ exit[p] = ExitOk
    /\ ascii_art[p] = <<34, 10>>
    /\ HoldsArtObject(stdout[p])

(* C6: what a run writes to standard output is a single line: it holds
   exactly one line terminator, the line feed at its end, however many line
   feeds the rendered art holds. *)
C6_SingleLine ==
  \A p \in procs :
    stdout[p] # <<>> =>
      /\ LineTerminators(stdout[p]) = 1
      /\ stdout[p][Len(stdout[p])] = 10

(* The art is two line feeds, and it has been printed. *)
C6_Witness ==
  \E p \in procs : ascii_art[p] = <<10, 10>> /\ stdout[p] # <<>> /\ exit[p] = ExitOk

(* C7: the emitted document parses, the parsed ascii_art value is the
   string the renderer returned, and serializing the parsed object again
   gives the emitted document. *)
C7_RoundTrip ==
  \A p \in procs :
    stdout[p] # <<>> =>
      /\ HoldsArtObject(stdout[p])
      /\ ArtOf(stdout[p]) = figlet[calls[p][1]].art
      /\ JsonDumps(ArtOf(stdout[p])) \o <<10>> = stdout[p]

(* The art is a backslash followed by the letter n, and it has been
   printed. *)
C7_Witness ==
  \E p \in procs : ascii_art[p] = <<92, 110>> /\ stdout[p] # <<>> /\ exit[p] = ExitOk

(* C8: a run executes the statements in program order, each at most once
   (what it has executed is always a prefix of read, render, print, exit);
   the renderer is called at most once, exactly once by the end of a run
   that was given an argument, and never when none was given; standard
   output changes only in the print step; a process that has ended takes no
   further step; and every run ends. *)
C8_Lifecycle ==
  /\ [](\A p \in procs :
          /\ IsPrefix(trace[p], Program)
          /\ Len(calls[p]) <= 1
          /\ Len(argv[p]) = 0 => calls[p] = <<>>
          /\ (Done(p) /\ Len(argv[p]) >= 1) => Len(calls[p]) = 1
          /\ Len(calls[p]) = Cardinality({i \in 1..Len(trace[p]) : trace[p][i] = "render"}))
  /\ [][\A p \in procs :
          /\ stdout'[p] # stdout[p] => trace'[p] = Append(trace[p], "print")
          /\ Done(p) => (pc'[p] = pc[p] /\ trace'[p] = trace[p] /\ exit'[p] = exit[p])]_vars
  /\ <>(\A p \in procs : Done(p))

(* A run that executed all four statements and has ended. *)
C8_Witness ==
  \E p \in procs : Done(p) /\ trace[p] = Program /\ Len(calls[p]) = 1

(* What an invocation with the arguments args produces when run alone. *)
Alone(args) ==
  IF Len(args) = 0 THEN [stdout |-> <<>>, exit |-> ExitUncaught]
  ELSE IF ~figlet[args[1]].ok THEN [stdout |-> <<>>, exit |-> ExitUncaught]
  ELSE [stdout |-> JsonDumps(figlet[args[1]].art) \o <<10>>, exit |-> ExitOk]

(* C9: of two invocations run concurrently, under any interleaving, each
   ends with the standard output and exit status it produces when run alone
   with the same arguments, and never has anything else on standard
   output. *)
C9_Independent ==
  \A p \in procs :
    /\ stdout[p] \in {<<>>, Alone(argv[p]).stdout}
    /\ exit[p] \in {NoExit, Alone(argv[p]).exit}
    /\ Done(p) => stdout[p] = Alone(argv[p]).stdout /\ exit[p] = Alone(argv[p]).exit

(* Both have ended successfully, with different outputs. *)
C9_Witness ==
  /\ procs = {1, 2}
  /\ \A p \in procs : Done(p) /\ exit[p] = ExitOk
  /\ stdout[1] # stdout[2]

(* C10: an invocation with two or more arguments ends with the standard
   output and exit status of the invocation with its first argument alone;
   the first argument, flag-like or not, is the text the renderer is called
   with. *)
C10_FirstArgumentOnly ==
  /\ \A p, q \in procs :
       (Len(argv[p]) >= 2 /\ argv[q] = <<argv[p][1]>> /\ Done(p) /\ Done(q)) =>
         stdout[p] = stdout[q] /\ exit[p] = exit[q]
  /\ \A p \in procs :
       Len(argv[p]) >= 1 =>
         /\ text[p] \in {Unbound, argv[p][1]}
         /\ calls[p] \in {<<>>, <<argv[p][1]>>}
         /\ Done(p) => calls[p] = <<argv[p][1]>>

(* "-" "-" beside "-" alone: both printed the same document. *)
C10_Witness ==
  \E p, q \in procs :
    /\ argv[p] = <<ExtraText, ExtraText>>
    /\ argv[q] = <<ExtraText>>
    /\ Done(p) /\ Done(q)
    /\ exit[p] = ExitOk
    /\ stdout[p] = stdout[q]
    /\ stdout[p] # <<>>

====
